---- MODULE Spec2Model ----
(***************************************************************************)
(* Partition replace-and-publish protocol of utils/duckdb_utils.py:        *)
(* duck_db_parquet_delete_and_insert and delete_partition_data, run        *)
(* against an S3 object store and a Glue catalog.  Every backend call of   *)
(* the two functions is one atomic step of a worker; the S3 and Glue       *)
(* operations are operators over the store and the catalog.                *)
(***************************************************************************)
EXTENDS Integers, Sequences, FiniteSets, TLC

\* ------------------------------------------------------------------ bounds
\* Publish calls one worker may issue, one after the other.
MaxCalls == 2
\* Backend failures and aborts injected in one behaviour.
MaxFaults == 1

\* --------------------------------------------------------------- constants
\* Keys returned by one list_objects_v2 response.  S3 returns at most 1000
\* keys per response; the code reads one response only.  Scaled to 2.
MaxKeys == 2

Workers == {1, 2}

\* Strings are sequences of tokens, so that prefix tests, concatenation and
\* splitting are computed and not assumed.  A partition key is a sequence of
\* digit tokens.
Bucket == "bucket"
Database == "db"
Table == "t"
K1 == <<"1">>
K10 == <<"1", "0">>
Keys == {K1, K10}

CANON == "data.parquet"
Names == {"a.parquet", CANON, "old.parquet"}

NoSchema == <<>>
VARCHAR == "VARCHAR"
DOUBLE == "DOUBLE"
Col(n, t) == [name |-> n, type |-> t]
\* WEATHER_SCHEMA-like schema: an ordered mapping column name -> type.
WeatherSchema == << Col("city", VARCHAR), Col("temperature", DOUBLE) >>
\* A narrower schema: the columns another publisher of the same table declares.
CitySchema == << Col("city", VARCHAR) >>
Schemas == {NoSchema, WeatherSchema, CitySchema}

\* Column lists of the DataFrames handed in.
ColsGood == << Col("city", VARCHAR), Col("temperature", DOUBLE) >>
ColsMissing == << Col("city", VARCHAR) >>
ColsRenamed == << Col("city", VARCHAR), Col("humidity", DOUBLE) >>
NewRows == {"n1", "n2", "n3", "n4", "n5"}
DataFrame(c, r) == [cols |-> c, rows |-> r]
DataFrames ==
    { DataFrame(ColsGood, {}), DataFrame(ColsGood, NewRows),
      DataFrame(ColsMissing, NewRows), DataFrame(ColsRenamed, NewRows) }

ColNames(cols) == [i \in 1..Len(cols) |-> cols[i].name]

\* A stored Parquet object: its column names and its rows.
Body(names, rows) == [cols |-> names, rows |-> rows]
OldBody == Body(<<"city", "temperature">>, {"o1", "o2", "o3"})

\* ------------------------------------------------------------------ paths
IsPrefix(a, b) == Len(a) <= Len(b) /\ SubSeq(b, 1, Len(a)) = a

\* utils/config.py get_s3_path: f"s3://{bucket_name}/{database}/{table}"
get_s3_path(database, table) == <<"s3://", Bucket, "/", database, "/", table>>
\* Mutant of s3_partition_path: the key alone names the partition directory.
s3_partition_path_plain(database, table, date_id) ==
    get_s3_path(database, table) \o <<"/">> \o date_id
\* f"{s3_base_path}/date_id={date_id}"
s3_partition_path(database, table, date_id) ==
    get_s3_path(database, table) \o <<"/", "date_id=">> \o date_id
\* f"{s3_partition_path}/data.parquet"
s3_data_path(database, table, date_id) ==
    s3_partition_path(database, table, date_id) \o <<"/", CANON>>

\* str.replace("s3://", "")
StripScheme(path) == SelectSeq(path, LAMBDA t : t # "s3://")
\* Position of the first "/" token, 0 when there is none.
FirstSlash(s) ==
    IF \E i \in 1..Len(s) : s[i] = "/"
    THEN CHOOSE i \in 1..Len(s) : s[i] = "/" /\ \A j \in 1..(i-1) : s[j] # "/"
    ELSE 0
\* s3_parts = path.replace("s3://", "").split("/", 1); bucket = s3_parts[0]
BucketOf(path) ==
    LET s == StripScheme(path) f == FirstSlash(s)
    IN IF f = 0 THEN s ELSE SubSeq(s, 1, f - 1)
\* prefix = s3_parts[1] if len(s3_parts) > 1 else ""
PrefixOf(path) ==
    LET s == StripScheme(path) f == FirstSlash(s)
    IN IF f = 0 THEN <<>> ELSE SubSeq(s, f + 1, Len(s))

\* The object key (within the bucket) of an S3 URI.
ObjKey(path) == PrefixOf(path)
\* The key of the object called name under the partition of date_id.
KeyOf(database, table, date_id, name) ==
    ObjKey(s3_partition_path(database, table, date_id) \o <<"/", name>>)

\* Rank of the tokens in byte order, as S3 orders keys (UTF-8 binary order):
\* "/" < digits < letters.
Rank(t) ==
    CASE t = "/" -> 1
      [] t = "0" -> 2
      [] t = "1" -> 3
      [] t = "2" -> 4
      [] t = "a.parquet" -> 5
      [] t = "bucket" -> 6
      [] t = "data.parquet" -> 7
      [] t = "date_id=" -> 8
      [] t = "db" -> 9
      [] t = "old.parquet" -> 10
      [] t = "t" -> 11
      [] OTHER -> 12
RECURSIVE KeyLess(_, _)
KeyLess(a, b) ==
    IF a = <<>> THEN b # <<>>
    ELSE IF b = <<>> THEN FALSE
    ELSE IF Rank(Head(a)) # Rank(Head(b)) THEN Rank(Head(a)) < Rank(Head(b))
    ELSE KeyLess(Tail(a), Tail(b))


\* ------------------------------------------------------------- S3 backend
\* The store maps the keys of the stored objects to their bodies.
Restrict(f, D) == [x \in D |-> f[x]]
Put(f, k, v) == [x \in DOMAIN f \cup {k} |-> IF x = k THEN v ELSE f[x]]

\* list_objects_v2(Bucket, Prefix): the keys that start with the prefix, in
\* key order, one response of at most MaxKeys keys.
Matching(store, prefix) == {k \in DOMAIN store : IsPrefix(prefix, k)}
list_objects_v2(store, prefix) ==
    LET M == Matching(store, prefix)
    IN {k \in M : Cardinality({j \in M : KeyLess(j, k)}) < MaxKeys}
\* delete_objects(Bucket, Delete={'Objects': ...}); a missing key is no error.
delete_objects(store, keys) == Restrict(store, DOMAIN store \ keys)

\* ----------------------------------------------------------- Glue backend
\* databases: set of names; tables: <<database, table>> -> table input;
\* partitions: <<database, table, date_id>> -> partition input.
Upper(dtype) ==
    CASE dtype = "varchar" -> "VARCHAR"
      [] dtype = "integer" -> "INTEGER"
      [] dtype = "double" -> "DOUBLE"
      [] OTHER -> dtype
\* Mutant of GlueType: the type name is compared as it was written.
GlueTypeCaseSensitive(dtype) ==
    IF dtype = "VARCHAR" THEN "string"
    ELSE IF dtype = "INTEGER" THEN "int"
    ELSE IF dtype = "DOUBLE" THEN "double"
    ELSE "string"
GlueType(dtype) ==
    IF Upper(dtype) = "VARCHAR" THEN "string"
    ELSE IF Upper(dtype) = "INTEGER" THEN "int"
    ELSE IF Upper(dtype) = "DOUBLE" THEN "double"
    ELSE "string"
GlueColumns(schema) ==
    [i \in 1..Len(schema) |-> [Name |-> schema[i].name, Type |-> GlueType(schema[i].type)]]
TableInput(database, table, schema) ==
    [ Columns |-> GlueColumns(schema),
      Location |-> get_s3_path(database, table),
      PartitionKeys |-> << [Name |-> "date_id", Type |-> "string"] >> ]
PartitionInput(database, table, date_id) ==
    [ Location |-> s3_partition_path(database, table, date_id) ]

\* --------------------------------------------------------- DuckDB write
\* data.empty: no rows or no columns.
IsEmpty(data) == data.rows = {} \/ data.cols = <<>>
\* A value of type from can be cast to type to: text such as a city name
\* does not cast to a number.
Castable(from, to) == to = VARCHAR \/ from = to
\* INSERT INTO temp_table SELECT * FROM data_to_insert binds by position:
\* it needs as many columns as the table has, each castable.
InsertOk(schema, data) ==
    /\ Len(data.cols) = Len(schema)
    /\ \A i \in 1..Len(schema) : Castable(data.cols[i].type, schema[i].type)
\* Whether the statements of lines 145-157 run up to the COPY.
WriteOk(schema, data) == schema = NoSchema \/ InsertOk(schema, data)
\* The Parquet body the COPY writes: temp_table's columns with the inserted
\* rows, or the DataFrame as it is.
WrittenBody(schema, data) ==
    IF schema # NoSchema
    THEN Body(ColNames(schema), data.rows)
    ELSE Body(ColNames(data.cols), data.rows)


\* ------------------------------------------------------------------ state
VARIABLES
    s3,                 \* S3 bucket: object key -> body
    databases,          \* Glue: names of the databases
    tables,             \* Glue: <<database, table>> -> table input
    partitions,         \* Glue: <<database, table, date_id>> -> partition input
    active,             \* the workers of this deployment
    pc,                 \* per worker: the backend call it is about to make
    args,               \* per worker: arguments of its publish call
    objects_to_delete,  \* per worker: local of delete_partition_data
    table_exists,       \* per worker: local of duck_db_parquet_delete_and_insert
    result,             \* per worker: how its last call ended
    returned,           \* per worker: what its last call returned and printed last
    warnings,           \* per worker: the warnings its call printed
    log,                \* per worker: backend calls its call has made, in order
    calls,              \* per worker: publish calls issued
    budget,             \* failures and aborts that may still be injected
    clean,              \* per worker: no failure was injected into its call
    start,              \* per worker: store and catalog when its call began
    prev,               \* per worker: its previous call
    iceberg,            \* the Iceberg table and the call of the Iceberg variant
    postgres            \* the PostgreSQL table and the run of the dashboard load

backend == <<s3, databases, tables, partitions>>
locals == <<pc, args, objects_to_delete, table_exists, result, returned, warnings, log>>
history == <<calls, clean, start, prev>>
publish_vars == <<s3, databases, tables, partitions, active, pc, args,
                  objects_to_delete, table_exists, result, returned, warnings, log,
                  calls, budget, clean, start, prev>>
vars == <<publish_vars, iceberg, postgres>>

World == [s3 |-> s3, databases |-> databases, tables |-> tables,
          partitions |-> partitions]
Null == [none |-> TRUE]
NoWorld == [s3 |-> [x \in {} |-> Null], databases |-> {},
            tables |-> [x \in {} |-> Null], partitions |-> [x \in {} |-> Null]]
NoArgs == [database |-> Database, table |-> Table, date_id |-> <<>>,
           data |-> DataFrame(<<>>, {}), schema |-> NoSchema]

\* The objects under the partition path of date_id: those of its directory.
PartitionDir(database, table, date_id) ==
    ObjKey(s3_partition_path(database, table, date_id)) \o <<"/">>
Under(store, database, table, date_id) ==
    {k \in DOMAIN store : IsPrefix(PartitionDir(database, table, date_id), k)}

\* ------------------------------------------------------- initial states
\* Objects a partition directory may hold before a call: nothing, the
\* canonical file, or the canonical file among files of earlier writes.
Shapes == { {}, {CANON}, Names }
StoreOf(sh) ==
    LET present == { <<k, n>> \in Keys \X Names : n \in sh[k] }
        keyset == { KeyOf(Database, Table, e[1], e[2]) : e \in present }
    IN [x \in keyset |-> OldBody]
\* A partition entry left by an earlier layout of the table.
LegacyLocation == get_s3_path(Database, Table) \o <<"/", "legacy">>
InitStores == { StoreOf(sh) : sh \in { f \in [Keys -> Shapes] : f[K10] # Names } }
InitPartitions ==
    LET Entry == {"none", "canonical", "legacy"}
        mk(f) == [x \in { <<Database, Table, k>> : k \in {j \in Keys : f[j] # "none"} } |->
                    IF f[x[3]] = "canonical"
                    THEN PartitionInput(Database, Table, x[3])
                    ELSE [Location |-> LegacyLocation]]
    IN { mk(f) : f \in { g \in [Keys -> Entry] : g[K10] # "legacy" } }
NoTables == [x \in {} |-> Null]
NoPartitions == [x \in {} |-> Null]
OneTable == [x \in {<<Database, Table>>} |-> TableInput(Database, Table, WeatherSchema)]
\* Another table of the same database, published by another pipeline, with a
\* partition of the key K1.
OtherTable == "u"
OtherTables ==
    [x \in {<<Database, OtherTable>>} |-> TableInput(Database, OtherTable, CitySchema)]
OtherPartitions ==
    [x \in {<<Database, OtherTable, K1>>} |-> PartitionInput(Database, OtherTable, K1)]
InitCatalogs ==
    { [databases |-> {}, tables |-> NoTables, partitions |-> NoPartitions],
      [databases |-> {Database}, tables |-> NoTables, partitions |-> NoPartitions],
      [databases |-> {Database}, tables |-> OtherTables, partitions |-> OtherPartitions] }
    \cup { [databases |-> {Database}, tables |-> OneTable @@ OtherTables,
            partitions |-> ps @@ OtherPartitions] : ps \in InitPartitions }

\* What the caller gets back and the last line the call printed.  The
\* function is declared -> None: the bare return of line 115 and the end of
\* the body both hand back None; an exception of the write propagates as the
\* backend raised it.
NoReturn == [value |-> <<>>, printed |-> <<>>]
\* Mutant of Return: a success hands back the data path and the row count.
ReturnLocation(a, r) ==
    CASE r = "empty" ->
           [value |-> <<"None">>,
            printed |-> <<"No data to insert, operation completed">>]
      [] r = "success" ->
           [value |-> s3_data_path(a.database, a.table, a.date_id)
                      \o <<"rows", Cardinality(a.data.rows)>>,
            printed |-> <<"Successfully saved data to">>
                        \o s3_data_path(a.database, a.table, a.date_id)
                        \o <<"and registered in Glue">>]
      [] r = "raised" -> [value |-> <<"exception">>, printed |-> <<>>]
      [] OTHER -> NoReturn
Return(a, r) ==
    CASE r = "empty" ->
           [value |-> <<"None">>,
            printed |-> <<"No data to insert, operation completed">>]
      [] r = "success" ->
           [value |-> <<"None">>,
            printed |-> <<"Successfully saved data to">>
                        \o s3_data_path(a.database, a.table, a.date_id)
                        \o <<"and registered in Glue">>]
      [] r = "raised" -> [value |-> <<"exception">>, printed |-> <<>>]
      [] OTHER -> NoReturn
InitLocals ==
    /\ pc = [p \in Workers |-> "idle"]
    /\ args = [p \in Workers |-> NoArgs]
    /\ objects_to_delete = [p \in Workers |-> {}]
    /\ table_exists = [p \in Workers |-> TRUE]
    /\ result = [p \in Workers |-> "none"]
    /\ returned = [p \in Workers |-> NoReturn]
    /\ warnings = [p \in Workers |-> {}]
    /\ log = [p \in Workers |-> <<>>]
    /\ calls = [p \in Workers |-> 0]
    /\ clean = [p \in Workers |-> TRUE]
    /\ start = [p \in Workers |-> Null]
    /\ prev = [p \in Workers |-> Null]
InitBackend ==
    /\ s3 \in InitStores
    /\ \E c \in InitCatalogs :
         /\ databases = c.databases
         /\ tables = c.tables
         /\ partitions = c.partitions

\* The Iceberg variant and the dashboard load before they are called.
IcebergIdle == [pc |-> "idle"]
PostgresIdle == [pc |-> "idle"]
OthersIdle == iceberg = IcebergIdle /\ postgres = PostgresIdle

\* One worker: publish calls one after the other.
Init == InitBackend /\ InitLocals /\ active = {1} /\ budget = MaxFaults /\ OthersIdle
\* Two workers of one deployment, publishing concurrently.
InitConc == InitBackend /\ InitLocals /\ active = Workers /\ budget = 0 /\ OthersIdle


\* ---------------------------------------------------------------- steps
Set(f, p, v) == [f EXCEPT ![p] = v]
Logged(p, op) == log' = Set(log, p, Append(log[p], op))
Warned(p, w) == warnings' = Set(warnings, p, warnings[p] \cup {w})
\* A backend call may fail while failures remain to be injected.
Outcomes == IF budget > 0 THEN {"ok", "fail"} ELSE {"ok"}
Spend(p, o) ==
    /\ budget' = IF o = "fail" THEN budget - 1 ELSE budget
    /\ clean' = IF o = "fail" THEN Set(clean, p, FALSE) ELSE clean
Goto(p, l) == pc' = Set(pc, p, l)
\* The call ends: it returned ("empty", "success") or raised ("raised").
Ended(p, a, r) ==
    /\ Goto(p, "done")
    /\ result' = Set(result, p, r)
    /\ returned' = Set(returned, p, Return(a, r))
Finish(p, r) == Ended(p, args[p], r)

Prefix(a) == PrefixOf(s3_partition_path(a.database, a.table, a.date_id))
DataKey(a) == ObjKey(s3_data_path(a.database, a.table, a.date_id))
TableId(a) == <<a.database, a.table>>
PartitionId(a) == <<a.database, a.table, a.date_id>>

\* duck_db_parquet_delete_and_insert, lines 113-131: entry and the test of
\* data.empty.
Begin(p, a) ==
    /\ calls' = Set(calls, p, calls[p] + 1)
    /\ start' = Set(start, p, World)
    /\ clean' = Set(clean, p, TRUE)
    /\ log' = Set(log, p, <<>>)
    /\ warnings' = Set(warnings, p, {})
    /\ objects_to_delete' = Set(objects_to_delete, p, {})
    /\ table_exists' = Set(table_exists, p, TRUE)
    /\ IF IsEmpty(a.data)
       THEN Ended(p, a, "empty")
       ELSE /\ Goto(p, "list_objects_v2")
            /\ result' = Set(result, p, "none")
            /\ returned' = Set(returned, p, NoReturn)
    /\ UNCHANGED <<backend, active, iceberg, postgres, budget>>

\* A worker publishes (database, table, date_id, data, schema).  Workers of
\* one deployment publish different keys: each pipeline run owns its date.
Call(p, date_id, data, schema) ==
    /\ p \in active
    /\ pc[p] = "idle"
    /\ calls[p] = 0
    /\ \A q \in active \ {p} : calls[q] > 0 => args[q].date_id # date_id
    /\ args' = Set(args, p, [database |-> Database, table |-> Table,
                             date_id |-> date_id, data |-> data, schema |-> schema])
    /\ prev' = prev
    /\ Begin(p, args'[p])

\* The caller issues the identical call again after the call ended.
Retry(p) ==
    /\ pc[p] = "done"
    /\ calls[p] < MaxCalls
    /\ prev' = Set(prev, p, [start |-> start[p], clean |-> clean[p],
                             result |-> result[p]])
    /\ args' = args
    /\ Begin(p, args[p])

\* Mutant of ListObjects: a failing listing is raised to the caller.
ListObjectsRaises(p) ==
    /\ pc[p] = "list_objects_v2"
    /\ Logged(p, "list_objects_v2")
    /\ \E o \in Outcomes :
         /\ Spend(p, o)
         /\ IF o = "fail"
            THEN /\ Warned(p, "s3")
                 /\ Finish(p, "raised")
                 /\ UNCHANGED objects_to_delete
            ELSE LET r == list_objects_v2(s3, Prefix(args[p]))
                 IN /\ objects_to_delete' = Set(objects_to_delete, p, r)
                    /\ Goto(p, IF r = {} THEN "get_table_1" ELSE "delete_objects")
                    /\ UNCHANGED <<warnings, result, returned>>
    /\ UNCHANGED <<backend, active, iceberg, postgres, args, table_exists, calls, start, prev>>

\* delete_partition_data, lines 50-63 and 69-70.
ListObjects(p) ==
    /\ pc[p] = "list_objects_v2"
    /\ Logged(p, "list_objects_v2")
    /\ \E o \in Outcomes :
         /\ Spend(p, o)
         /\ IF o = "fail"
            THEN /\ Warned(p, "s3")
                 /\ Goto(p, "get_table_1")
                 /\ UNCHANGED objects_to_delete
            ELSE LET r == list_objects_v2(s3, Prefix(args[p]))
                 IN /\ objects_to_delete' = Set(objects_to_delete, p, r)
                    /\ Goto(p, IF r = {} THEN "get_table_1" ELSE "delete_objects")
                    /\ UNCHANGED warnings
    /\ UNCHANGED <<backend, active, iceberg, postgres, args, table_exists, result, returned, calls, start, prev>>

\* Mutant of DeleteObjects: after a failed request the catalog cleanup is
\* left out.
DeleteObjectsSkipsCatalog(p) ==
    /\ pc[p] = "delete_objects"
    /\ Logged(p, "delete_objects")
    /\ \E o \in Outcomes :
         /\ Spend(p, o)
         /\ IF o = "fail"
            THEN /\ \E D \in (SUBSET objects_to_delete[p]) \ {objects_to_delete[p]} :
                        s3' = delete_objects(s3, D)
                 /\ Warned(p, "s3")
                 /\ Goto(p, "write")
            ELSE /\ s3' = delete_objects(s3, objects_to_delete[p])
                 /\ UNCHANGED warnings
                 /\ Goto(p, "get_table_1")
    /\ UNCHANGED <<databases, tables, partitions, active, iceberg, postgres, args, objects_to_delete,
                   table_exists, result, returned, calls, start, prev>>

\* Mutant of DeleteObjects: a failed request is issued again.
DeleteObjectsRetries(p) ==
    /\ pc[p] = "delete_objects"
    /\ Logged(p, "delete_objects")
    /\ \E o \in Outcomes :
         /\ Spend(p, o)
         /\ IF o = "fail"
            THEN /\ \E D \in (SUBSET objects_to_delete[p]) \ {objects_to_delete[p]} :
                        s3' = delete_objects(s3, D)
                 /\ Warned(p, "s3")
                 /\ Goto(p, "delete_objects")
            ELSE /\ s3' = delete_objects(s3, objects_to_delete[p])
                 /\ UNCHANGED warnings
                 /\ Goto(p, "get_table_1")
    /\ UNCHANGED <<databases, tables, partitions, active, iceberg, postgres, args, objects_to_delete,
                   table_exists, result, returned, calls, start, prev>>

\* delete_partition_data, lines 64-70.  A failing request may have deleted
\* some of the objects.
DeleteObjects(p) ==
    /\ pc[p] = "delete_objects"
    /\ Logged(p, "delete_objects")
    /\ \E o \in Outcomes :
         /\ Spend(p, o)
         /\ IF o = "fail"
            THEN /\ \E D \in (SUBSET objects_to_delete[p]) \ {objects_to_delete[p]} :
                        s3' = delete_objects(s3, D)
                 /\ Warned(p, "s3")
            ELSE /\ s3' = delete_objects(s3, objects_to_delete[p])
                 /\ UNCHANGED warnings
    /\ Goto(p, "get_table_1")
    /\ UNCHANGED <<databases, tables, partitions, active, iceberg, postgres, args, objects_to_delete,
                   table_exists, result, returned, calls, start, prev>>

\* delete_partition_data, lines 73-80 and 93-94.
DeleteGetTable(p) ==
    /\ pc[p] = "get_table_1"
    /\ Logged(p, "get_table")
    /\ \E o \in Outcomes :
         /\ Spend(p, o)
         /\ IF o = "fail"
            THEN Warned(p, "glue") /\ Goto(p, "write")
            ELSE /\ UNCHANGED warnings
                 /\ Goto(p, IF TableId(args[p]) \in DOMAIN tables
                            THEN "delete_partition" ELSE "write")
    /\ UNCHANGED <<backend, active, iceberg, postgres, args, objects_to_delete, table_exists, result, returned,
                   calls, start, prev>>

\* Mutant of DeletePartition: the request names no partition of the key and
\* its not-found answer is absorbed, so the entry stays.
DeletePartitionMissesKey(p) ==
    /\ pc[p] = "delete_partition"
    /\ Logged(p, "delete_partition")
    /\ \E o \in Outcomes :
         /\ Spend(p, o)
         /\ IF o = "fail" THEN Warned(p, "glue") ELSE UNCHANGED warnings
    /\ Goto(p, "write")
    /\ UNCHANGED <<backend, active, iceberg, postgres, args, objects_to_delete,
                   table_exists, result, returned, calls, start, prev>>

\* Mutant of DeletePartition: the request drops every partition of the
\* table.
DeletePartitionsOfTable(p) ==
    /\ pc[p] = "delete_partition"
    /\ Logged(p, "delete_partition")
    /\ \E o \in Outcomes :
         /\ Spend(p, o)
         /\ IF o = "fail"
            THEN Warned(p, "glue") /\ UNCHANGED partitions
            ELSE /\ UNCHANGED warnings
                 /\ partitions' = Restrict(partitions,
                        {x \in DOMAIN partitions : <<x[1], x[2]>> # TableId(args[p])})
    /\ Goto(p, "write")
    /\ UNCHANGED <<s3, databases, tables, active, iceberg, postgres, args, objects_to_delete,
                   table_exists, result, returned, calls, start, prev>>

\* Mutant of DeletePartition: the not-found answer for a missing partition
\* reaches the caller.
DeletePartitionRaisesNotFound(p) ==
    /\ pc[p] = "delete_partition"
    /\ Logged(p, "delete_partition")
    /\ \E o \in Outcomes :
         /\ Spend(p, o)
         /\ IF o = "fail"
            THEN /\ Warned(p, "glue") /\ Goto(p, "write")
                 /\ UNCHANGED <<partitions, result, returned>>
            ELSE /\ UNCHANGED warnings
                 /\ partitions' = Restrict(partitions,
                                           DOMAIN partitions \ {PartitionId(args[p])})
                 /\ IF PartitionId(args[p]) \in DOMAIN partitions
                    THEN Goto(p, "write") /\ UNCHANGED <<result, returned>>
                    ELSE Finish(p, "raised")
    /\ UNCHANGED <<s3, databases, tables, active, iceberg, postgres, args, objects_to_delete,
                   table_exists, calls, start, prev>>

\* delete_partition_data, lines 82-94.
DeletePartition(p) ==
    /\ pc[p] = "delete_partition"
    /\ Logged(p, "delete_partition")
    /\ \E o \in Outcomes :
         /\ Spend(p, o)
         /\ IF o = "fail"
            THEN Warned(p, "glue") /\ UNCHANGED partitions
            ELSE /\ UNCHANGED warnings
                 /\ partitions' = Restrict(partitions,
                                           DOMAIN partitions \ {PartitionId(args[p])})
    /\ Goto(p, "write")
    /\ UNCHANGED <<s3, databases, tables, active, iceberg, postgres, args, objects_to_delete,
                   table_exists, result, returned, calls, start, prev>>

\* Mutant of WriteParquet: the DuckDB statements sit inside a try block of
\* their own, so a failed write is logged and the registration still runs.
WriteParquetSwallowed(p) ==
    /\ pc[p] = "write"
    /\ Goto(p, "get_database")
    /\ IF ~WriteOk(args[p].schema, args[p].data)
       THEN /\ Warned(p, "write")
            /\ UNCHANGED <<s3, log, budget, clean>>
       ELSE /\ Logged(p, "copy")
            /\ \E o \in Outcomes :
                 /\ Spend(p, o)
                 /\ IF o = "fail"
                    THEN Warned(p, "write") /\ UNCHANGED s3
                    ELSE /\ s3' = Put(s3, DataKey(args[p]),
                                      WrittenBody(args[p].schema, args[p].data))
                         /\ UNCHANGED warnings
    /\ UNCHANGED <<databases, tables, partitions, active, iceberg, postgres, args, objects_to_delete,
                   table_exists, result, returned, calls, start, prev>>

\* duck_db_parquet_delete_and_insert, lines 141-157: the DuckDB statements;
\* an exception of any of them leaves the function.
WriteParquet(p) ==
    /\ pc[p] = "write"
    /\ IF ~WriteOk(args[p].schema, args[p].data)
       THEN /\ Finish(p, "raised")
            /\ UNCHANGED <<s3, log, budget, clean>>
       ELSE /\ Logged(p, "copy")
            /\ \E o \in Outcomes :
                 /\ Spend(p, o)
                 /\ IF o = "fail"
                    THEN Finish(p, "raised") /\ UNCHANGED s3
                    ELSE /\ s3' = Put(s3, DataKey(args[p]),
                                      WrittenBody(args[p].schema, args[p].data))
                         /\ Goto(p, "get_database")
                         /\ UNCHANGED <<result, returned>>
    /\ UNCHANGED <<databases, tables, partitions, active, iceberg, postgres, args, objects_to_delete,
                   table_exists, warnings, calls, start, prev>>

\* Mutant of Swallow: the except clause undoes the write.
SwallowRollback(p) ==
    /\ Warned(p, "register")
    /\ Finish(p, "success")
    /\ s3' = delete_objects(s3, {DataKey(args[p])})

\* Lines 248-251: the except clause around the Glue registration prints a
\* warning, and the function prints its last message and returns.
\* Nothing is undone: the object written by the COPY stays.
Swallow(p) == Warned(p, "register") /\ Finish(p, "success") /\ s3' = s3

\* Mutant of GetDatabase: create_database follows whatever the check found.
GetDatabaseAlwaysCreates(p) ==
    /\ pc[p] = "get_database"
    /\ Logged(p, "get_database")
    /\ \E o \in Outcomes :
         /\ Spend(p, o)
         /\ IF o = "fail"
            THEN Swallow(p)
            ELSE /\ Goto(p, "create_database")
                 /\ UNCHANGED <<warnings, result, returned, s3>>
    /\ UNCHANGED <<databases, tables, partitions, active, iceberg, postgres, args, objects_to_delete,
                   table_exists, calls, start, prev>>

\* Lines 160-167.
GetDatabase(p) ==
    /\ pc[p] = "get_database"
    /\ Logged(p, "get_database")
    /\ \E o \in Outcomes :
         /\ Spend(p, o)
         /\ IF o = "fail"
            THEN Swallow(p)
            ELSE /\ Goto(p, IF args[p].database \in databases
                            THEN "get_table_2" ELSE "create_database")
                 /\ UNCHANGED <<warnings, result, returned, s3>>
    /\ UNCHANGED <<databases, tables, partitions, active, iceberg, postgres, args, objects_to_delete,
                   table_exists, calls, start, prev>>

\* Lines 168-174; Glue answers AlreadyExistsException for an existing name.
CreateDatabase(p) ==
    /\ pc[p] = "create_database"
    /\ Logged(p, "create_database")
    /\ \E o \in Outcomes :
         /\ Spend(p, o)
         /\ IF o = "fail" \/ args[p].database \in databases
            THEN Swallow(p) /\ UNCHANGED databases
            ELSE /\ databases' = databases \cup {args[p].database}
                 /\ Goto(p, "get_table_2")
                 /\ UNCHANGED <<warnings, result, returned, s3>>
    /\ UNCHANGED <<tables, partitions, active, iceberg, postgres, args, objects_to_delete,
                   table_exists, calls, start, prev>>

\* Mutant of GetTable: a table that is found is updated to the schema of the
\* call.
GetTableEvolves(p) ==
    /\ pc[p] = "get_table_2"
    /\ Logged(p, "get_table")
    /\ \E o \in Outcomes :
         /\ Spend(p, o)
         /\ IF o = "fail"
            THEN Swallow(p) /\ UNCHANGED <<table_exists, tables>>
            ELSE LET found == TableId(args[p]) \in DOMAIN tables
                 IN /\ table_exists' = Set(table_exists, p, found)
                    /\ tables' = IF found /\ args[p].schema # NoSchema
                                  THEN Put(tables, TableId(args[p]),
                                           TableInput(args[p].database, args[p].table,
                                                      args[p].schema))
                                  ELSE tables
                    /\ Goto(p, IF ~found /\ args[p].schema # NoSchema
                               THEN "create_table" ELSE "create_partition")
                    /\ UNCHANGED <<warnings, result, returned, s3>>
    /\ UNCHANGED <<databases, partitions, active, iceberg, postgres, args, objects_to_delete,
                   calls, start, prev>>

\* Lines 176-183.
GetTable(p) ==
    /\ pc[p] = "get_table_2"
    /\ Logged(p, "get_table")
    /\ \E o \in Outcomes :
         /\ Spend(p, o)
         /\ IF o = "fail"
            THEN Swallow(p) /\ UNCHANGED table_exists
            ELSE LET found == TableId(args[p]) \in DOMAIN tables
                 IN /\ table_exists' = Set(table_exists, p, found)
                    /\ Goto(p, IF ~found /\ args[p].schema # NoSchema
                               THEN "create_table" ELSE "create_partition")
                    /\ UNCHANGED <<warnings, result, returned, s3>>
    /\ UNCHANGED <<databases, tables, partitions, active, iceberg, postgres, args, objects_to_delete,
                   calls, start, prev>>

\* Lines 183-229.
CreateTable(p) ==
    /\ pc[p] = "create_table"
    /\ Logged(p, "create_table")
    /\ \E o \in Outcomes :
         /\ Spend(p, o)
         /\ IF \/ o = "fail"
               \/ args[p].database \notin databases
               \/ TableId(args[p]) \in DOMAIN tables
            THEN Swallow(p) /\ UNCHANGED tables
            ELSE /\ tables' = Put(tables, TableId(args[p]),
                                  TableInput(args[p].database, args[p].table,
                                             args[p].schema))
                 /\ Goto(p, "create_partition")
                 /\ UNCHANGED <<warnings, result, returned, s3>>
    /\ UNCHANGED <<databases, partitions, active, iceberg, postgres, args, objects_to_delete,
                   table_exists, calls, start, prev>>

\* Lines 231-251.
CreatePartition(p) ==
    /\ pc[p] = "create_partition"
    /\ Logged(p, "create_partition")
    /\ \E o \in Outcomes :
         /\ Spend(p, o)
         /\ IF \/ o = "fail"
               \/ TableId(args[p]) \notin DOMAIN tables
               \/ PartitionId(args[p]) \in DOMAIN partitions
            THEN Swallow(p) /\ UNCHANGED partitions
            ELSE /\ partitions' = Put(partitions, PartitionId(args[p]),
                                      PartitionInput(args[p].database, args[p].table,
                                                     args[p].date_id))
                 /\ Finish(p, "success")
                 /\ UNCHANGED <<warnings, s3>>
    /\ UNCHANGED <<databases, tables, active, iceberg, postgres, args, objects_to_delete,
                   table_exists, calls, start, prev>>

\* The call is cut off between two backend calls (the process is killed or
\* the task cancelled).
Abort(p) ==
    /\ pc[p] \notin {"idle", "done"}
    /\ budget > 0
    /\ budget' = budget - 1
    /\ clean' = Set(clean, p, FALSE)
    /\ Finish(p, "aborted")
    /\ UNCHANGED <<backend, active, iceberg, postgres, args, objects_to_delete, table_exists, warnings,
                   log, calls, start, prev>>

Step(p) ==
    \/ ListObjects(p)
    \/ DeleteObjects(p)
    \/ DeleteGetTable(p)
    \/ DeletePartition(p)
    \/ WriteParquet(p)
    \/ GetDatabase(p)
    \/ CreateDatabase(p)
    \/ GetTable(p)
    \/ CreateTable(p)
    \/ CreatePartition(p)

Next ==
    \E p \in Workers :
        \/ \E k \in Keys, d \in DataFrames, sc \in Schemas : Call(p, k, d, sc)
        \/ Retry(p)
        \/ Step(p)
        \/ Abort(p)

\* Concurrent publishes of non-empty data that fits the schema.
NextConc ==
    \E p \in Workers :
        \/ \E k \in Keys, sc \in {NoSchema, WeatherSchema} :
               Call(p, k, DataFrame(ColsGood, NewRows), sc)
        \/ Step(p)

\* First publishes into an empty bucket and catalog, with schemas over the
\* type names in both spellings and one name outside the three.
TypeNames == {"VARCHAR", "varchar", "INTEGER", "integer", "DOUBLE", "double", "BOOLEAN"}
TypeSchemas ==
    { << Col("city", t1), Col("weather_code", t2) >> : t1 \in TypeNames, t2 \in TypeNames }
InitTypes ==
    /\ InitLocals
    /\ s3 = [x \in {} |-> Null]
    /\ databases = {}
    /\ tables = NoTables
    /\ partitions = NoPartitions
    /\ active = {1}
    /\ budget = 0
    /\ OthersIdle
NextTypes ==
    \E p \in Workers :
        \/ \E k \in Keys, sc \in TypeSchemas : Call(p, k, DataFrame(sc, NewRows), sc)
        \/ Retry(p)
        \/ Step(p)

\* ------------------------------------------------------ Iceberg variant
\* utils/duckdb_iceberg_utils.py, duck_db_iceberg_delete_and_insert with a
\* DataFrame.  A row is a value; RowsMatching are the values that satisfy
\* delete_condition.  The table is a bag: value -> number of copies.
RowValues == {"m1", "m2", "x"}
RowsMatching == {"m1", "m2"}
NoRows == [r \in RowValues |-> 0]
BagOf(S) == [r \in RowValues |-> IF r \in S THEN 1 ELSE 0]
\* DELETE FROM table WHERE delete_condition
DeleteWhere(rows) == [r \in RowValues |-> IF r \in RowsMatching THEN 0 ELSE rows[r]]
\* INSERT INTO table SELECT * FROM data_to_insert
InsertRows(rows, data) == [r \in RowValues |-> rows[r] + (IF r \in data THEN 1 ELSE 0)]

PublishIdle ==
    /\ InitLocals
    /\ s3 = [x \in {} |-> Null]
    /\ databases = {}
    /\ tables = NoTables
    /\ partitions = NoPartitions
    /\ active = {}
    /\ budget = 0

IcebergTables ==
    {[exists |-> FALSE, rows |-> NoRows]}
        \cup {[exists |-> TRUE, rows |-> BagOf(S)] : S \in SUBSET RowValues}
InitIceberg ==
    /\ PublishIdle
    /\ postgres = PostgresIdle
    /\ \E t \in IcebergTables :
           iceberg = [pc |-> "call", table |-> t, start |-> t, table_exists |-> TRUE,
                      data |-> {}, schema |-> FALSE, result |-> "none",
                      delete_error |-> FALSE, log |-> <<>>, budget |-> MaxFaults]

IceOutcomes == IF iceberg.budget > 0 THEN {"ok", "fail"} ELSE {"ok"}
IceSpent(o) == IF o = "fail" THEN iceberg.budget - 1 ELSE iceberg.budget
IceLog(op) == Append(iceberg.log, op)
IceFrame == UNCHANGED <<publish_vars, postgres>>

\* The caller passes a DataFrame and, or not, a schema (lines 8-15).
IceCall(data, schema) ==
    /\ iceberg.pc = "call"
    /\ iceberg' = [iceberg EXCEPT !.pc = "describe", !.data = data, !.schema = schema]
    /\ IceFrame

\* Lines 41-46: any exception of DESCRIBE counts as "no table".
IceDescribe ==
    /\ iceberg.pc = "describe"
    /\ \E o \in IceOutcomes :
         LET found == o = "ok" /\ iceberg.table.exists
         IN iceberg' = [iceberg EXCEPT !.table_exists = found,
                                       !.pc = IF found THEN "delete" ELSE "empty?",
                                       !.log = IceLog("describe"),
                                       !.budget = IceSpent(o)]
    /\ IceFrame

\* Mutant of IceDelete: an empty DataFrame ends the call before the DELETE.
IceDeleteAfterEmptyCheck ==
    /\ iceberg.pc = "delete"
    /\ IF iceberg.data = {}
       THEN iceberg' = [iceberg EXCEPT !.pc = "done", !.result = "empty"]
       ELSE \E o \in IceOutcomes :
              iceberg' = [iceberg EXCEPT
                  !.table.rows = IF o = "ok" THEN DeleteWhere(@) ELSE @,
                  !.delete_error = o = "fail",
                  !.pc = "empty?",
                  !.log = IceLog("delete"),
                  !.budget = IceSpent(o)]
    /\ IceFrame

\* Lines 48-55: a failed DELETE is printed and the call goes on.
IceDelete ==
    /\ iceberg.pc = "delete"
    /\ \E o \in IceOutcomes :
         iceberg' = [iceberg EXCEPT
             !.table.rows = IF o = "ok" THEN DeleteWhere(@) ELSE @,
             !.delete_error = o = "fail",
             !.pc = "empty?",
             !.log = IceLog("delete"),
             !.budget = IceSpent(o)]
    /\ IceFrame

\* Lines 58-81: the empty check, then the branch on table_exists and schema.
IceCheckEmpty ==
    /\ iceberg.pc = "empty?"
    /\ iceberg' = [iceberg EXCEPT
           !.pc = IF iceberg.data = {} THEN "done"
                  ELSE IF iceberg.table_exists THEN "insert"
                  ELSE IF iceberg.schema THEN "create_table"
                  ELSE "create_as",
           !.result = IF iceberg.data = {} THEN "empty" ELSE @]
    /\ IceFrame

\* Line 69, and line 100 after the CREATE TABLE of line 97.
IceInsert ==
    /\ iceberg.pc = "insert"
    /\ \E o \in IceOutcomes :
         iceberg' = [iceberg EXCEPT
             !.table.rows = IF o = "ok" THEN InsertRows(@, iceberg.data) ELSE @,
             !.result = IF o = "ok" THEN "success" ELSE "raised",
             !.pc = "done",
             !.log = IceLog("insert"),
             !.budget = IceSpent(o)]
    /\ IceFrame

\* Lines 83-97: CREATE TABLE with the schema; it fails on an existing table.
IceCreateTable ==
    /\ iceberg.pc = "create_table"
    /\ \E o \in IceOutcomes :
         LET ok == o = "ok" /\ ~iceberg.table.exists
         IN iceberg' = [iceberg EXCEPT
                !.table = IF ok THEN [exists |-> TRUE, rows |-> NoRows] ELSE @,
                !.result = IF ok THEN @ ELSE "raised",
                !.pc = IF ok THEN "insert" ELSE "done",
                !.log = IceLog("create_table"),
                !.budget = IceSpent(o)]
    /\ IceFrame

\* Lines 103-115: CREATE TABLE ... AS SELECT * FROM data_to_insert.
IceCreateAs ==
    /\ iceberg.pc = "create_as"
    /\ \E o \in IceOutcomes :
         LET ok == o = "ok" /\ ~iceberg.table.exists
         IN iceberg' = [iceberg EXCEPT
                !.table = IF ok THEN [exists |-> TRUE, rows |-> BagOf(iceberg.data)]
                          ELSE @,
                !.result = IF ok THEN "success" ELSE "raised",
                !.pc = "done",
                !.log = IceLog("create_as"),
                !.budget = IceSpent(o)]
    /\ IceFrame

NextIceberg ==
    \/ \E data \in SUBSET RowValues, schema \in BOOLEAN : IceCall(data, schema)
    \/ IceDescribe
    \/ IceDelete
    \/ IceCheckEmpty
    \/ IceInsert
    \/ IceCreateTable
    \/ IceCreateAs

\* --------------------------------------------------- dashboard load
\* gold/dashboard_data/dashboard__north_america_weather.py and
\* utils/postgres_utils.py.  Stored rows d1, d2 carry the date_id of the run,
\* row o another date; the rows of the DataFrame all carry the run's date_id
\* (line 48 of the query).
StoredRows == {"d1", "d2", "o"}
FrameRows == {"n1", "n2"}
OfDate(r) == r \in {"d1", "d2", "n1", "n2"}

InitPostgres ==
    /\ PublishIdle
    /\ iceberg = IcebergIdle
    /\ \E t \in SUBSET StoredRows :
           postgres = [pc |-> "call", table |-> t, start |-> t, df |-> {},
                       result |-> "none", runs |-> 0, budget |-> MaxFaults]

PgOutcomes == IF postgres.budget > 0 THEN {"ok", "fail"} ELSE {"ok"}
PgSpent(o) == IF o = "fail" THEN postgres.budget - 1 ELSE postgres.budget
PgFrame == UNCHANGED <<publish_vars, iceberg>>

\* Lines 70-79: the query result; an empty result ends the run.
PgRun(df) ==
    /\ postgres.pc = "call"
    /\ postgres' = [postgres EXCEPT
           !.df = df,
           !.start = postgres.table,
           !.runs = @ + 1,
           !.pc = IF df = {} THEN "done" ELSE "delete",
           !.result = IF df = {} THEN "empty" ELSE "none"]
    /\ PgFrame

\* Lines 84-89 and 97-99: the DELETE in a transaction of its own, committed
\* when the with block is left; a failure rolls it back and is re-raised.
PgDelete ==
    /\ postgres.pc = "delete"
    /\ \E o \in PgOutcomes :
         postgres' = [postgres EXCEPT
             !.table = IF o = "ok" THEN {r \in @ : ~OfDate(r)} ELSE @,
             !.pc = IF o = "ok" THEN "upload" ELSE "done",
             !.result = IF o = "ok" THEN @ ELSE "raised",
             !.budget = PgSpent(o)]
    /\ PgFrame

\* upload_to_postgres, lines 16-41: to_sql(if_exists='append') in a second
\* transaction; a failure rolls the insert back and is re-raised.
upload_to_postgres ==
    /\ postgres.pc = "upload"
    /\ IF postgres.df = {}
       THEN postgres' = [postgres EXCEPT !.pc = "done", !.result = "success"]
       ELSE \E o \in PgOutcomes :
              postgres' = [postgres EXCEPT
                  !.table = IF o = "ok" THEN @ \cup postgres.df ELSE @,
                  !.pc = "done",
                  !.result = IF o = "ok" THEN "success" ELSE "raised",
                  !.budget = PgSpent(o)]
    /\ PgFrame

\* The pipeline is run again for the same date.
PgRerun ==
    /\ postgres.pc = "done"
    /\ postgres.runs < MaxCalls
    /\ postgres' = [postgres EXCEPT !.pc = "call"]
    /\ PgFrame

NextPostgres ==
    \/ \E df \in SUBSET FrameRows : PgRun(df)
    \/ PgDelete
    \/ upload_to_postgres
    \/ PgRerun

Spec == Init /\ [][Next]_vars
SpecConc == InitConc /\ [][NextConc]_vars
SpecTypes == InitTypes /\ [][NextTypes]_vars
SpecIceberg == InitIceberg /\ [][NextIceberg]_vars
SpecPostgres == InitPostgres /\ [][NextPostgres]_vars

TypeOK ==
    /\ pc \in [Workers -> {"idle", "list_objects_v2", "delete_objects", "get_table_1",
                           "delete_partition", "write", "get_database",
                           "create_database", "get_table_2", "create_table",
                           "create_partition", "done"}]
    /\ result \in [Workers -> {"none", "empty", "success", "raised", "aborted"}]
    /\ \A p \in Workers : returned[p].value \in {<<>>, <<"None">>, <<"exception">>}
    /\ budget \in 0..MaxFaults
    /\ databases \subseteq {Database}
    /\ \A t \in DOMAIN tables : t[1] \in databases
    /\ \A x \in DOMAIN partitions : <<x[1], x[2]>> \in DOMAIN tables


\* ------------------------------------------------- the uninterrupted call
\* duck_db_parquet_delete_and_insert run from W alone and without failure:
\* the store and the catalog it leaves.
FullPublish(W, a) ==
    IF IsEmpty(a.data) THEN W
    ELSE
      LET s3a == delete_objects(W.s3, list_objects_v2(W.s3, Prefix(a)))
          pa == IF TableId(a) \in DOMAIN W.tables
                THEN Restrict(W.partitions, DOMAIN W.partitions \ {PartitionId(a)})
                ELSE W.partitions
      IN IF ~WriteOk(a.schema, a.data)
         THEN [W EXCEPT !.s3 = s3a, !.partitions = pa]
         ELSE
           LET s3b == Put(s3a, DataKey(a), WrittenBody(a.schema, a.data))
               tbls == IF TableId(a) \notin DOMAIN W.tables /\ a.schema # NoSchema
                       THEN Put(W.tables, TableId(a),
                                TableInput(a.database, a.table, a.schema))
                       ELSE W.tables
               parts == IF TableId(a) \in DOMAIN tbls /\ PartitionId(a) \notin DOMAIN pa
                        THEN Put(pa, PartitionId(a),
                                 PartitionInput(a.database, a.table, a.date_id))
                        ELSE pa
           IN [s3 |-> s3b, databases |-> W.databases \cup {a.database},
               tables |-> tbls, partitions |-> parts]

\* A call that ran alone and without failure leaves what FullPublish computes.
FullPublishIsTheCleanCall ==
    \A p \in active :
        (active = {p} /\ pc[p] = "done" /\ clean[p])
            => World = FullPublish(start[p], args[p])

\* ================================================================ claims
Done(p) == pc[p] = "done"
Canonical(a) == KeyOf(a.database, a.table, a.date_id, CANON)
CanonicalLocation(a) == s3_partition_path(a.database, a.table, a.date_id)
\* The objects of W under the partition path of the call's key.
ObjectsUnder(W, a) ==
    Restrict(W.s3, Under(W.s3, a.database, a.table, a.date_id))
HasEntry(W, a) == PartitionId(a) \in DOMAIN W.partitions
EntryOf(W, a) == IF HasEntry(W, a) THEN W.partitions[PartitionId(a)] ELSE Null
\* The canonical file holds exactly the rows of the call's DataFrame.
FileIsNew(W, a) ==
    /\ Canonical(a) \in DOMAIN W.s3
    /\ W.s3[Canonical(a)].rows = a.data.rows
Registered(W, a) ==
    /\ HasEntry(W, a)
    /\ W.partitions[PartitionId(a)].Location = CanonicalLocation(a)
Range(f) == {f[i] : i \in DOMAIN f}
\* The DataFrame has no column of some name the schema lists.
LacksColumn(schema, data) ==
    \E i \in 1..Len(schema) : schema[i].name \notin Range(ColNames(data.cols))
\* The objects stored under a catalog location.
FilesAt(W, location) ==
    {k \in DOMAIN W.s3 : IsPrefix(ObjKey(location) \o <<"/">>, k)}
Creates == {"create_database", "create_table", "create_partition"}
\* The COPY of the call succeeded: the call went on to the Glue registration.
WriteSucceeded(p) ==
    \/ pc[p] \in {"get_database", "create_database", "get_table_2", "create_table",
                  "create_partition"}
    \/ Done(p) /\ \E i \in DOMAIN log[p] : log[p][i] = "get_database"

\* The key of the call had its canonical file and its catalog entry when the
\* call began.
Published(p) ==
    /\ Canonical(args[p]) \in DOMAIN start[p].s3
    /\ Registered(start[p], args[p])

\* C1 (empty-dataset law): a publish call with a zero-row DataFrame for a key
\* that had data ends with no object under the partition path of the key, no
\* catalog partition entry for the key, and the "empty" result.
C1_EmptyDatasetLaw ==
    \A p \in active :
        (Done(p) /\ clean[p] /\ IsEmpty(args[p].data) /\ Published(p))
            => /\ result[p] = "empty"
               /\ ObjectsUnder(World, args[p]) = ObjectsUnder(NoWorld, args[p])
               /\ ~HasEntry(World, args[p])

\* C2 (schema enforcement): a publish call whose DataFrame lacks a column of
\* the schema raises, and the objects under the partition path and the
\* catalog partition entry of the key are what they were when it began.
C2_SchemaMismatchLeavesState ==
    \A p \in active :
        (Done(p) /\ clean[p] /\ ~IsEmpty(args[p].data) /\ Published(p)
                 /\ LacksColumn(args[p].schema, args[p].data))
            => /\ result[p] = "raised"
               /\ ObjectsUnder(World, args[p]) = ObjectsUnder(start[p], args[p])
               /\ EntryOf(World, args[p]) = EntryOf(start[p], args[p])

\* C3 (idempotence): a second fault-free publish of the same (table, key,
\* dataset) right after a first one leaves the objects under the partition
\* path and the catalog partition entry as the first call left them.
C3_Idempotent ==
    \A p \in active :
        (Done(p) /\ clean[p] /\ result[p] = "success"
                 /\ prev[p] # Null /\ prev[p].clean /\ prev[p].result = "success")
            => /\ ObjectsUnder(World, args[p]) = ObjectsUnder(start[p], args[p])
               /\ EntryOf(World, args[p]) = EntryOf(start[p], args[p])

\* C4 (publish postcondition): when a publish call with a non-empty DataFrame
\* returns without raising, the canonical file holds exactly the new rows and
\* the catalog has the partition entry of the key at the canonical path.
C4_PublishPostcondition ==
    \A p \in active :
        (Done(p) /\ clean[p] /\ ~IsEmpty(args[p].data) /\ result[p] = "success")
            => /\ FileIsNew(World, args[p])
               /\ Registered(World, args[p])

\* C5 (catalog failures are surfaced): a call in which an operation of the
\* Glue registration failed after the write does not end as a success.
C5_CatalogFailureSurfaced ==
    \A p \in active :
        (Done(p) /\ "register" \in warnings[p]) => result[p] # "success"

\* C6 (no rollback): once the write of a call has succeeded, the canonical
\* file holds exactly the new rows, in every later state of the call and
\* after it, whatever step of the Glue registration fails.
C6_WriteNotUndone ==
    \A p \in active :
        WriteSucceeded(p) => FileIsNew(World, args[p])
\* A call whose write succeeded and whose registration failed, leaving the
\* file in place and the key without a canonical entry.
C6_Witness ==
    \E p \in active :
        /\ Done(p) /\ WriteSucceeded(p) /\ "register" \in warnings[p]
        /\ FileIsNew(World, args[p])
        /\ ~Registered(World, args[p])

\* C7 (storage before catalog): a call invokes create_database, create_table
\* or create_partition only after its COPY, with the canonical file written;
\* a call that raised has invoked none of them.
C7_StorageBeforeCatalog ==
    \A p \in active :
        \A i \in DOMAIN log[p] :
            log[p][i] \in Creates
                => /\ \E j \in 1..(i - 1) : log[p][j] = "copy"
                   /\ FileIsNew(World, args[p])
                   /\ result[p] # "raised"
\* A call that created the partition entry after its COPY.
C7_Witness ==
    \E p \in active :
        /\ Done(p) /\ result[p] = "success"
        /\ \E i \in DOMAIN log[p] : log[p][i] = "create_partition"
        /\ Registered(World, args[p])

\* The call republishes a key that had a catalog entry with data under its
\* location when the call began.
Republish(p) ==
    /\ calls[p] > 0
    /\ HasEntry(start[p], args[p])
    /\ FilesAt(start[p], EntryOf(start[p], args[p]).Location) # {}
\* A reader finds the catalog entry of the key and no object at its location.
EntryWithoutFile(p) ==
    /\ HasEntry(World, args[p])
    /\ FilesAt(World, EntryOf(World, args[p]).Location) = {}

\* C8 as claimed (atomic replace): during a fault-free republish no state has
\* the catalog partition entry of the key without a data file under its
\* location.
C8_AtomicReplace ==
    \A p \in active :
        (Republish(p) /\ clean[p]) => ~EntryWithoutFile(p)
\* C8 as amended: during a republish the catalog partition entry of the key
\* is without a data file under its location only after the call's
\* delete_objects and before its COPY, or after a call that was cut off or
\* raised there; in a fault-free call only until its delete_partition.
C8_ReplaceWindow ==
    \A p \in active :
        (Republish(p) /\ EntryWithoutFile(p))
            => /\ \/ pc[p] \in {"get_table_1", "delete_partition", "write"}
                  \/ Done(p) /\ result[p] \in {"raised", "aborted"}
               /\ clean[p] => pc[p] \in {"get_table_1", "delete_partition"}
\* A fault-free republish between its delete_objects and its delete_partition.
C8_Witness ==
    \E p \in active :
        /\ Republish(p) /\ clean[p] /\ EntryWithoutFile(p)
        /\ pc[p] = "delete_partition"
        /\ \E i \in DOMAIN log[p] : log[p][i] = "delete_objects"

\* C9 (retry convergence): after a call that was cut off or met a failure,
\* the identical call run without failure leaves the store and the catalog
\* that one uninterrupted fault-free call would have left, with the partition
\* registered at the canonical path.
C9_RetryConverges ==
    \A p \in active :
        (Done(p) /\ clean[p] /\ result[p] = "success"
                 /\ prev[p] # Null /\ ~prev[p].clean)
            => /\ World = FullPublish(prev[p].start, args[p])
               /\ Registered(World, args[p])

\* C10 (independence): two concurrent publishes of non-empty data with a
\* schema to different keys of one table end with each partition holding its own new
\* file and each key registered at its canonical path.
C10_Independent ==
    (\A p \in Workers : Done(p) /\ args[p].schema # NoSchema)
        => \A p \in Workers : /\ FileIsNew(World, args[p])
                              /\ Registered(World, args[p])

\* ------------------------------------------------------- claims C11..C20
Did(p, op) == \E i \in DOMAIN log[p] : log[p][i] = op
\* The call has data to publish and the write accepts it.
Conforming(a) == ~IsEmpty(a.data) /\ WriteOk(a.schema, a.data)

\* C11 (deletion failures do not abort): a publish call with a non-empty,
\* conforming DataFrame in which listing or deleting the objects under the
\* partition path failed still runs the COPY, and when the COPY succeeded the
\* canonical file holds the call's rows and the Glue registration was run.
C11_DeletionFailureProceeds ==
    \A p \in active :
        (Done(p) /\ "s3" \in warnings[p] /\ result[p] # "aborted"
                 /\ Conforming(args[p]))
            => /\ Did(p, "copy")
               /\ result[p] # "raised"
                    => FileIsNew(World, args[p]) /\ Did(p, "get_database")
\* A call whose delete_objects request failed part-way ended as a success.
C11_Witness ==
    \E p \in active :
        /\ Done(p) /\ "s3" \in warnings[p] /\ result[p] = "success"
        /\ Did(p, "delete_objects") /\ Did(p, "create_partition")
        /\ Conforming(args[p])

\* The table of the call is in the catalog W with the root location
\* <root>/<database>/<table> and the single partition column date_id.
TableRegistered(W, a) ==
    /\ TableId(a) \in DOMAIN W.tables
    /\ W.tables[TableId(a)].Location = <<"s3://", Bucket, "/", a.database, "/", a.table>>
    /\ [i \in DOMAIN W.tables[TableId(a)].PartitionKeys |->
            W.tables[TableId(a)].PartitionKeys[i].Name] = <<"date_id">>

\* C12 (table created on first publish): a fault-free publish of a non-empty
\* DataFrame to a (database, table) without catalog table entry ends with the
\* table in the catalog (root location, partition column date_id) and with
\* the partition entry of the key, whether or not a schema was passed.
C12_TableCreatedOnFirstPublish ==
    \A p \in active :
        (Done(p) /\ clean[p] /\ result[p] = "success"
                 /\ TableId(args[p]) \notin DOMAIN start[p].tables)
            => /\ TableRegistered(World, args[p])
               /\ Registered(World, args[p])

\* C13 (no schema evolution): no step of any publish call changes or removes
\* a catalog table entry that exists (its columns, partition keys and root
\* location stay), and create_table is only reached by a call whose
\* existence check reported the table absent.
C13_NoSchemaEvolution ==
    [][ /\ \A t \in DOMAIN tables : t \in DOMAIN tables' /\ tables'[t] = tables[t]
        /\ \A p \in active : pc'[p] = "create_table" => ~table_exists'[p]
      ]_vars
\* A call whose schema lists other columns than the existing table ended as a
\* success.
C13_Witness ==
    \E p \in active :
        /\ Done(p) /\ result[p] = "success" /\ clean[p]
        /\ TableId(args[p]) \in DOMAIN start[p].tables
        /\ args[p].schema # NoSchema
        /\ GlueColumns(args[p].schema) # start[p].tables[TableId(args[p])].Columns
        /\ Did(p, "create_partition")

\* The call passes a schema whose columns are not the columns of the catalog
\* table that existed when the call began.
SchemaDiffers(p) ==
    /\ TableId(args[p]) \in DOMAIN start[p].tables
    /\ args[p].schema # NoSchema
    /\ GlueColumns(args[p].schema) # start[p].tables[TableId(args[p])].Columns

\* C14 (SchemaConflict): a publish call whose schema implies other columns
\* than the existing catalog table has fails, and the partition entry of the
\* key is not registered under that table.
C14_SchemaConflict ==
    \A p \in active :
        (Done(p) /\ clean[p] /\ ~IsEmpty(args[p].data) /\ SchemaDiffers(p))
            => /\ result[p] = "raised"
               /\ ~HasEntry(World, args[p])

\* C15 (partition registration is repeat-safe): a publish call that reaches
\* create_partition while the entry of its key is still in the catalog,
\* because the earlier delete of the catalog partition failed, ends with an
\* entry for the key at the canonical partition path.
C15_RegistrationRepeatSafe ==
    \A p \in active :
        (Done(p) /\ result[p] = "success" /\ "glue" \in warnings[p]
                 /\ HasEntry(start[p], args[p]) /\ Did(p, "create_partition"))
            => Registered(World, args[p])

\* C16 (stale-data removal is complete): a publish call with a non-empty
\* conforming DataFrame in which no request failed ends with exactly one
\* object under the partition path of its key, the canonical data.parquet,
\* however many objects were stored there before.
C16_StaleDataRemoved ==
    \A p \in active :
        (Done(p) /\ clean[p] /\ result[p] = "success")
            => Under(s3, args[p].database, args[p].table, args[p].date_id)
                   = {Canonical(args[p])}

\* What the claim has a success return: the canonical storage location with
\* the number of rows written.
LocationAndRows(a) ==
    s3_data_path(a.database, a.table, a.date_id) \o <<"rows", Cardinality(a.data.rows)>>

C18_ValidationByName ==
    \A p \in active :
        (Done(p) /\ clean[p] /\ ~IsEmpty(args[p].data) /\ args[p].schema # NoSchema)
            => IF LacksColumn(args[p].schema, args[p].data)
               THEN result[p] = "raised" /\ ~Did(p, "copy")
               ELSE WriteSucceeded(p)
                      => s3[Canonical(args[p])].cols = ColNames(args[p].schema)

\* The DataFrame has a column of a name the schema does not list.
HasExtraColumn(schema, data) ==
    \E i \in 1..Len(data.cols) : data.cols[i].name \notin Range(ColNames(schema))

\* C19 (extra columns are permitted): a publish call with a schema and a
\* DataFrame that has every column of the schema and more columns succeeds,
\* and the catalog table the call creates lists the schema's columns only.
C19_ExtraColumnsPermitted ==
    \A p \in active :
        (Done(p) /\ clean[p] /\ ~IsEmpty(args[p].data) /\ args[p].schema # NoSchema
                 /\ ~LacksColumn(args[p].schema, args[p].data)
                 /\ HasExtraColumn(args[p].schema, args[p].data))
            => /\ result[p] = "success"
               /\ TableId(args[p]) \notin DOMAIN start[p].tables
                    => /\ TableId(args[p]) \in DOMAIN tables
                       /\ tables[TableId(args[p])].Columns = GlueColumns(args[p].schema)

\* The layout the claim names, written out: <root>/<database>/<table>,
\* below it date_id=<key>, below that data.parquet; and the same without
\* the scheme and the bucket, as keys within the bucket.
LayoutTable(a) == <<"s3://", Bucket, "/", a.database, "/", a.table>>
LayoutPartition(a) == LayoutTable(a) \o <<"/", "date_id=">> \o a.date_id
LayoutPartitionKey(a) == <<a.database, "/", a.table, "/", "date_id=">> \o a.date_id
LayoutFileKey(a) == LayoutPartitionKey(a) \o <<"/", "data.parquet">>

\* C20 (canonical path layout): the table a call creates has the location
\* <root>/<database>/<table>, the partition it registers has the location
\* <table location>/date_id=<key>, the file it writes is
\* <partition location>/data.parquet, and the objects it lists for deletion
\* are those found under that partition location; all of them depend on
\* (root, database, table, key) only.
C20_CanonicalLayout ==
    \A p \in active :
        /\ (pc[p] \in {"create_partition", "done"} /\ Did(p, "create_table")
                /\ "register" \notin warnings[p] /\ result[p] # "aborted")
              => /\ TableId(args[p]) \in DOMAIN tables
                 /\ tables[TableId(args[p])].Location = LayoutTable(args[p])
        /\ (Done(p) /\ result[p] = "success" /\ "register" \notin warnings[p])
              => /\ PartitionId(args[p]) \in DOMAIN partitions
                 /\ partitions[PartitionId(args[p])].Location = LayoutPartition(args[p])
        /\ WriteSucceeded(p)
              => /\ LayoutFileKey(args[p]) \in DOMAIN s3
                 /\ s3[LayoutFileKey(args[p])].rows = args[p].data.rows
        /\ pc[p] = "delete_objects"
              => /\ objects_to_delete[p] # {}
                 /\ objects_to_delete[p]
                      = list_objects_v2(s3, LayoutPartitionKey(args[p]))
\* A call deleted old objects, wrote its file, created the table and
\* registered the partition.
C20_Witness ==
    \E p \in active :
        /\ Done(p) /\ result[p] = "success" /\ warnings[p] = {}
        /\ Did(p, "delete_objects") /\ Did(p, "create_table")
        /\ LayoutFileKey(args[p]) \in DOMAIN s3

\* ------------------------------------------------------- claims C21..C30
Catalog(W) == [databases |-> W.databases, tables |-> W.tables,
               partitions |-> W.partitions]
InCleanup(p) == pc[p] \in {"list_objects_v2", "delete_objects", "get_table_1",
                           "delete_partition", "write"}

\* C21 (deleting a missing partition is a no-op): for a call whose key had no
\* catalog partition entry, delete_partition is not issued when the table
\* does not exist, the catalog is what it was up to the write, and the call
\* only ever raises from the write.
C21_MissingPartitionNoOp ==
    \A p \in active :
        (calls[p] > 0 /\ ~HasEntry(start[p], args[p]))
            => /\ TableId(args[p]) \notin DOMAIN start[p].tables
                    => ~Did(p, "delete_partition")
               /\ InCleanup(p) => Catalog(World) = Catalog(start[p])
               /\ (Done(p) /\ result[p] = "raised")
                    => Did(p, "copy") \/ ~Conforming(args[p])
\* delete_partition answered not-found and the call went on to the write.
C21_Witness ==
    \E p \in active :
        /\ pc[p] = "write" /\ clean[p] /\ Did(p, "delete_partition")
        /\ ~HasEntry(start[p], args[p])

\* C22 (database creation is idempotent): create_database is only reached
\* while the database is absent; a call against a database that exists
\* leaves the set of databases as it was, never calls create_database, and,
\* when nothing fails and the table exists or a schema is given, ends
\* registered without a warning.
C22_DatabaseCreationIdempotent ==
    \A p \in active :
        /\ pc[p] = "create_database" => args[p].database \notin databases
        /\ (calls[p] > 0 /\ args[p].database \in start[p].databases)
              => /\ databases = start[p].databases
                 /\ ~Did(p, "create_database")
                 /\ (Done(p) /\ clean[p] /\ Conforming(args[p])
                        /\ (args[p].schema # NoSchema
                               \/ TableId(args[p]) \in DOMAIN start[p].tables))
                      => /\ result[p] = "success"
                         /\ warnings[p] = {}
                         /\ Registered(World, args[p])
\* A call against the existing database created the table and registered
\* the partition.
C22_Witness ==
    \E p \in active :
        /\ Done(p) /\ clean[p] /\ result[p] = "success"
        /\ args[p].database \in start[p].databases
        /\ Did(p, "get_database") /\ Did(p, "create_table")
        /\ Registered(World, args[p])

\* The backend operations that change S3 or Glue.
Mutating == {"delete_objects", "delete_partition", "copy", "create_database",
             "create_table", "create_partition"}
Times(p, op) == Cardinality({i \in DOMAIN log[p] : log[p][i] = op})
\* Backend requests of the longest call: two lists, two deletes, the COPY,
\* two existence checks for the database and the table, three creates.
LongestCall == 10

\* C23 (termination without internal retry): whatever fails, a publish call
\* issues each mutating backend operation at most once and at most
\* LongestCall requests in all, and while it has not ended its next step can
\* be taken; so it ends after a bounded number of steps.
C23_NoInternalRetry ==
    \A p \in active :
        /\ \A op \in Mutating : Times(p, op) <= 1
        /\ Len(log[p]) <= LongestCall
        /\ pc[p] \notin {"idle", "done"} => ENABLED Step(p)
\* A call in which delete_objects failed ended after the longest sequence of
\* requests.
C23_Witness ==
    \E p \in active :
        /\ Done(p) /\ ~clean[p] /\ "s3" \in warnings[p]
        /\ Times(p, "delete_objects") = 1
        /\ Did(p, "create_database") /\ Did(p, "create_table")
        /\ Did(p, "create_partition")

\* C24 (catalog frame): no step of a publish call removes a database or a
\* table entry, and a step that creates, removes or alters a partition entry
\* is a step of a call for exactly that (database, table, key).
C24_CatalogFrame ==
    [][ /\ databases \subseteq databases'
        /\ DOMAIN tables \subseteq DOMAIN tables'
        /\ \A x \in DOMAIN partitions \cup DOMAIN partitions' :
              (\/ x \notin DOMAIN partitions
               \/ x \notin DOMAIN partitions'
               \/ partitions'[x] # partitions[x])
                => \E p \in active : pc'[p] # pc[p] /\ x = PartitionId(args[p])
      ]_vars
\* A call replaced the entry of K1 while the entry of the other key and the
\* entry of K1 of the other table stayed.
C24_Witness ==
    \E p \in active :
        /\ Done(p) /\ args[p].date_id = K1 /\ Registered(World, args[p])
        /\ HasEntry(start[p], args[p]) /\ Did(p, "delete_partition")
        /\ <<Database, Table, K10>> \in DOMAIN partitions
        /\ <<Database, OtherTable, K1>> \in DOMAIN partitions

\* C25 (prefix isolation): the stale-data deletion of a publish call for the
\* key k deletes no object stored under the partition path of another key
\* of the same table, also when k is a prefix of that key.
C25_PrefixIsolation ==
    \A p \in active :
        calls[p] > 0 =>
            \A k \in Keys \ {args[p].date_id} :
                Under(start[p].s3, args[p].database, args[p].table, k)
                    \subseteq DOMAIN s3

\* C26 (the two cleanup steps are independent): after a failure of the
\* listing or of delete_objects the call still asks the catalog for the
\* table and, when that finds the table, issues delete_partition; after a
\* failure of the catalog cleanup the call goes on to the write; the cleanup
\* never ends the call.
C26_CleanupStepsIndependent ==
    \A p \in active :
        result[p] # "aborted" =>
            /\ ("s3" \in warnings[p] /\ pc[p] \notin {"delete_objects", "get_table_1"})
                  => /\ Did(p, "get_table")
                     /\ ("glue" \notin warnings[p] /\ pc[p] # "delete_partition"
                            /\ TableId(args[p]) \in DOMAIN start[p].tables)
                          => Did(p, "delete_partition")
            /\ "glue" \in warnings[p] => ~InCleanup(p) \/ pc[p] = "write"
            /\ (Done(p) /\ ~Did(p, "copy")) => ~WriteOk(args[p].schema, args[p].data)
                                                 \/ IsEmpty(args[p].data)
\* delete_objects failed and delete_partition then removed the entry.
C26_Witness ==
    \E p \in active :
        /\ pc[p] = "write" /\ "s3" \in warnings[p] /\ Did(p, "delete_objects")
        /\ Did(p, "delete_partition")
        /\ HasEntry(start[p], args[p]) /\ ~HasEntry(World, args[p])

\* The table entry the call created is in the catalog.
CreatedTable(p) ==
    /\ Did(p, "create_table") /\ pc[p] \in {"create_partition", "done"}
    /\ "register" \notin warnings[p] /\ result[p] # "aborted"
ColumnsTyped(p, typeOf(_)) ==
    tables[TableId(args[p])].Columns
        = [i \in 1..Len(args[p].schema) |->
              [Name |-> args[p].schema[i].name, Type |-> typeOf(args[p].schema[i].type)]]
PartitionColumnIsDateId(p) ==
    tables[TableId(args[p])].PartitionKeys = << [Name |-> "date_id", Type |-> "string"] >>
\* The mapping the claim states, for the three type names in either case.
ClaimedType(t) ==
    CASE t \in {"VARCHAR", "varchar"} -> "string"
      [] t \in {"INTEGER", "integer"} -> "integer"
      [] t \in {"DOUBLE", "double"} -> "double"
      [] OTHER -> "string"
\* The mapping with INTEGER as int.
HiveType(t) ==
    CASE t \in {"VARCHAR", "varchar"} -> "string"
      [] t \in {"INTEGER", "integer"} -> "int"
      [] t \in {"DOUBLE", "double"} -> "double"
      [] OTHER -> "string"

\* C27 (catalog type mapping): the table a call creates lists one column per
\* schema entry in schema order, VARCHAR typed string, INTEGER typed integer
\* and DOUBLE typed double whatever the case of the type name, and the
\* partition column date_id of type string.
C27_TypeMapping ==
    \A p \in active :
        CreatedTable(p) => ColumnsTyped(p, ClaimedType) /\ PartitionColumnIsDateId(p)

\* C27 with INTEGER typed int: the table a call creates lists one column
\* per schema entry in schema order, VARCHAR typed string, INTEGER typed int
\* and DOUBLE typed double whatever the case of the type name (any other
\* type name typed string), and the partition column date_id of type string.
C27_TypeMappingInt ==
    \A p \in active :
        CreatedTable(p) => ColumnsTyped(p, HiveType) /\ PartitionColumnIsDateId(p)
\* A table was created from a schema with a lower-case integer column after
\* a varchar column.
C27_Witness ==
    \E p \in active :
        /\ CreatedTable(p) /\ Done(p)
        /\ args[p].schema = << Col("city", "varchar"), Col("weather_code", "integer") >>
        /\ tables[TableId(args[p])].Columns[2].Type = "int"

IceDone == iceberg.pc = "done"
IceTimes(op) == Cardinality({i \in DOMAIN iceberg.log : iceberg.log[i] = op})

C29_IcebergReplace ==
    (IceDone /\ iceberg.result = "success" /\ iceberg.start.exists /\ iceberg.data # {})
        => \A r \in RowsMatching :
              iceberg.table.rows[r] = IF r \in iceberg.data THEN 1 ELSE 0

\* C30 (relational replace is all-or-nothing): when a run of
\* process_north_america_weather has ended, the table is either what it was
\* when the run began or has the rows of date_id replaced by the new rows;
\* a run that raised left the rows stored for date_id in place, and a run
\* with an empty result left the table untouched.
C30_ReplaceAllOrNothing ==
    postgres.pc = "done" =>
        /\ \/ postgres.table = postgres.start
           \/ postgres.table = {r \in postgres.start : ~OfDate(r)} \cup postgres.df
        /\ postgres.result = "raised" => postgres.table = postgres.start
        /\ postgres.result = "empty" => postgres.table = postgres.start
====
